---- MODULE Spec2Model ----
(***************************************************************************)
(* Model of the Jailhouse loader driver (main.c): the enable, disable and  *)
(* cell-create ioctls, the mutex that serialises them, and the cross-CPU   *)
(* call (on_each_cpu + call_done counter) used to enter and leave the      *)
(* hypervisor.                                                             *)
(*                                                                         *)
(* Callers are kernel threads 1..NumThreads; each runs one ioctl at a      *)
(* time, pc[t] being the statement it is about to execute.  CPUs are       *)
(* 0..NumCpus-1; cpu_state[c] is the position of CPU c in the function a   *)
(* cross-CPU call asked it to run.  What the hypervisor, the firmware      *)
(* loader, ioremap, copy_from_user, cpu_down and cpu_up answer is outside  *)
(* the driver and is chosen nondeterministically.                          *)
(***************************************************************************)
EXTENDS Integers, FiniteSets

\* ---- bounds of the model
NumCpus == 3
NumThreads == 2
MaxCalls == 3
NumHvErrors == 2
\* width of a machine word (unsigned long, u64), scaled down
WordBits == 24

\* ---- errno values returned by the driver
EINTR == 4
ENOENT == 2
EFAULT == 14
EBUSY == 16
EINVAL == 22
ENOMEM == 12

PAGE_SIZE == 4096

Cpus == 0 .. (NumCpus - 1)
Threads == 1 .. NumThreads
\* non-zero codes the hypervisor may hand back from entry() or a hypercall
HvErrors == { -k : k \in 1 .. NumHvErrors }
HvResults == {0} \cup HvErrors

NoThread == 0
NoCpu == -1
\* result[c] while CPU c has not run the current cross-CPU function
NoResult == 1

VARIABLES
    lock,           \* owner of the mutex, NoThread when free
    enabled,        \* static bool enabled
    hypervisor_mem, \* TRUE while the hypervisor region is ioremap'ed
    module_refs,    \* references taken with try_module_get(THIS_MODULE)
    offlined_cpus,  \* static cpumask_t offlined_cpus
    call_done,      \* static atomic_t call_done
    error_code,     \* static int error_code
    cpu_online,     \* the kernel's cpu_online_mask
    preempt_cpu,    \* CPU of the caller inside preempt_disable(), or NoCpu
    cpu_state,      \* per CPU: "idle", "ipi" (function queued), "ret" (entry returned)
    result,         \* per CPU: what entry()/the disable hypercall returned
    resident,       \* CPUs that the hypervisor has taken over
    cell_maps,      \* number of live ioremap'ed cell regions
    pc,             \* per thread: next statement
    err,            \* per thread: local variable err
    cpu_mask,       \* per thread: bits of the cell's cpu mask not yet visited
    cpu,            \* per thread: loop variable of for_each_cpu_mask
    calls,          \* ioctls issued so far
    cell_mem,       \* per thread: TRUE while its cell_mem mapping is live
    downed,         \* per thread: CPUs this call has added to offlined_cpus
    cell_created,   \* a cell-create hypercall has returned 0 since the last enable
    check_args,     \* sizes handed to a size check taken on its own
    check_result    \* what that check answered, "none" before it has run

vars == << lock, enabled, hypervisor_mem, module_refs, offlined_cpus, call_done,
           error_code, cpu_online, preempt_cpu, cpu_state, result, resident,
           cell_maps, pc, err, cpu_mask, cpu, calls, cell_mem, downed,
           cell_created, check_args, check_result >>

shared == << enabled, hypervisor_mem, module_refs, offlined_cpus, call_done,
             error_code, cpu_online, preempt_cpu, cpu_state, result, resident,
             cell_maps >>

\* bookkeeping that only jailhouse_cell_create, the return to user space and
\* the stand-alone size checks touch
aux == << cell_mem, downed, cell_created, check_args, check_result >>

Min(S) == CHOOSE x \in S : \A y \in S : x <= y

InitDriver ==
    /\ lock = NoThread
    /\ enabled = FALSE
    /\ hypervisor_mem = FALSE
    /\ module_refs = 0
    /\ offlined_cpus = {}
    /\ call_done = 0
    /\ error_code = 0
    /\ cpu_online = Cpus
    /\ preempt_cpu = NoCpu
    /\ cpu_state = [c \in Cpus |-> "idle"]
    /\ result = [c \in Cpus |-> NoResult]
    /\ resident = {}
    /\ cell_maps = 0
    /\ pc = [t \in Threads |-> "idle"]
    /\ err = [t \in Threads |-> 0]
    /\ cpu_mask = [t \in Threads |-> {}]
    /\ cpu = [t \in Threads |-> NoCpu]
    /\ calls = 0
    /\ cell_mem = [t \in Threads |-> FALSE]
    /\ downed = [t \in Threads |-> {}]
    /\ cell_created = FALSE

Init ==
    /\ InitDriver
    /\ check_args = << >>
    /\ check_result = "none"

\* ---- helpers shared by the three ioctls

Goto(t, label) == pc' = [pc EXCEPT ![t] = label]

\* return e; the ioctl has run its last statement and err[t] is the value
\* that jailhouse_ioctl hands back
ReturnWith(t, e) ==
    /\ pc' = [pc EXCEPT ![t] = "returned"]
    /\ err' = [err EXCEPT ![t] = e]
    /\ cpu_mask' = [cpu_mask EXCEPT ![t] = {}]
    /\ cpu' = [cpu EXCEPT ![t] = NoCpu]

\* return err;
Return(t) == ReturnWith(t, err[t])

\* thread t is in user space: it has issued no ioctl yet, or its last one
\* has returned err[t]
InUserSpace(t) == pc[t] \in { "idle", "returned" }

\* jailhouse_ioctl is entered: a fresh stack frame, up to `calls < MaxCalls`
\* ioctls in all
Ioctl(t) ==
    /\ InUserSpace(t)
    /\ calls < MaxCalls
    /\ calls' = calls + 1
    /\ cell_mem' = [cell_mem EXCEPT ![t] = FALSE]
    /\ downed' = [downed EXCEPT ![t] = {}]

\* mutex_lock_interruptible(&lock) == 0
MutexLock(t) ==
    /\ lock = NoThread
    /\ lock' = t

\* mutex_lock_interruptible(&lock) != 0: a signal arrives while sleeping on
\* the mutex that another thread holds
MutexInterrupted(t) ==
    /\ lock # NoThread
    /\ lock # t
    /\ UNCHANGED lock

\* mutex_unlock(&lock); the per-CPU results of the finished cross-CPU call
\* are of no further use
MutexUnlock(t) ==
    /\ lock = t
    /\ lock' = NoThread
    /\ result' = [c \in Cpus |-> NoResult]

\* preempt_disable(); atomic_set(&call_done, 0); on_each_cpu(func, info, 0):
\* the caller stays on the CPU it runs on, every online CPU gets the function
OnEachCpu ==
    /\ \E c \in cpu_online : preempt_cpu' = c
    /\ call_done' = 0
    /\ cpu_state' = [c \in Cpus |-> IF c \in cpu_online THEN "ipi" ELSE cpu_state[c]]
    /\ result' = [c \in Cpus |-> NoResult]

\* PollDone leaving the loop as soon as one CPU has counted itself
PollDoneAfterFirstCpu ==
    /\ cpu_state[preempt_cpu] = "idle"
    /\ call_done >= 1
    /\ preempt_cpu' = NoCpu

\* while (atomic_read(&call_done) != num_online_cpus()) cpu_relax();
\* preempt_enable().  on_each_cpu has run the function on the calling CPU
\* before it returns.
PollDone ==
    /\ cpu_state[preempt_cpu] = "idle"
    /\ call_done = Cardinality(cpu_online)
    /\ preempt_cpu' = NoCpu

\* RecordResult that counts the CPU but forgets to store its error
RecordResultDropsError(c) ==
    /\ cpu_state[c] = "ret"
    /\ error_code' = error_code
    /\ call_done' = call_done + 1
    /\ cpu_state' = [cpu_state EXCEPT ![c] = "idle"]

\* if (err) error_code = err; atomic_inc(&call_done);
RecordResult(c) ==
    /\ cpu_state[c] = "ret"
    /\ error_code' = IF result[c] # 0 THEN result[c] ELSE error_code
    /\ call_done' = call_done + 1
    /\ cpu_state' = [cpu_state EXCEPT ![c] = "idle"]

\* ---- sizes and the two size checks

WordMod == 2 ^ WordBits
\* an unsigned machine word keeps the low WordBits bits
Word(x) == x % WordMod

\* 1024 * 1024, the least RAM a cell may have
MiB == 1024 * 1024

\* sizes a firmware header, a system configuration or a cell descriptor may
\* carry: small ones, ones around a page and a megabyte, ones near the top
\* of the word
SizeWords == { 0, 1, PAGE_SIZE, MiB - 1, MiB, MiB + 1, 4 * MiB,
               WordMod - MiB, WordMod - PAGE_SIZE, WordMod - 1 }

\* PAGE_ALIGN(x): (x + PAGE_SIZE - 1) & ~(PAGE_SIZE - 1) on a machine word
PageAlign(x) == (Word(x + PAGE_SIZE - 1) \div PAGE_SIZE) * PAGE_SIZE

\* << hv_mem->size, header->bss_end, header->percpu_size, config_size >>
LayoutArgs == SizeWords \X SizeWords \X SizeWords \X SizeWords

\* hv_core_size = PAGE_ALIGN(header->bss_end);
HvCoreSize(a) == PageAlign(a[2])
\* percpu_size = num_possible_cpus() * header->percpu_size;
PercpuSize(a) == Word(NumCpus * a[3])
ConfigSize(a) == a[4]

\* if (hv_mem->size <= hv_core_size + percpu_size + config_size) goto error_release_fw;
\* the sum is an unsigned long
LayoutOverflows(a) ==
    a[1] <= Word(Word(HvCoreSize(a) + PercpuSize(a)) + ConfigSize(a))

\* the sizes a caller hands in are its own choice: both answers occur
SomeLayoutOverflows == \E a \in LayoutArgs : LayoutOverflows(a)
SomeLayoutFits == \E a \in LayoutArgs : ~LayoutOverflows(a)

\* << config->num_memory_regions, ram->size, image->target_address, image->size >>
CellArgs == (0 .. 2) \X SizeWords \X SizeWords \X SizeWords

\* config->num_memory_regions < 1 || ram->size < 1024 * 1024 ||
\* image->target_address + image->size > ram->size; the sum is a u64
CellMemoryInvalid(a) ==
    \/ a[1] < 1
    \/ a[2] < MiB
    \/ Word(a[3] + a[4]) > a[2]

SomeCellMemoryInvalid == \E a \in CellArgs : CellMemoryInvalid(a)
SomeCellMemoryValid == \E a \in CellArgs : ~CellMemoryInvalid(a)

\* ---- jailhouse_enable

\* the first copy_from_user of the config header faults: -EFAULT
EnableCopyFault(t) ==
    /\ Ioctl(t)
    /\ ReturnWith(t, -EFAULT)
    /\ UNCHANGED << lock, shared, cell_created, check_args, check_result >>

EnableCall(t) ==
    /\ Ioctl(t)
    /\ err' = [err EXCEPT ![t] = 0]
    /\ Goto(t, "en_lock")
    /\ UNCHANGED << lock, shared, cpu_mask, cpu, cell_created, check_args,
                    check_result >>

EnableLock(t) ==
    /\ pc[t] = "en_lock"
    /\ \/ /\ MutexLock(t)
          /\ Goto(t, "en_check")
          /\ UNCHANGED << err, cpu_mask, cpu >>
       \/ /\ MutexInterrupted(t)
          /\ ReturnWith(t, -EINTR)
    /\ UNCHANGED << shared, calls, aux >>

\* EnableCheck that does not look at enabled
EnableCheckIgnoresEnabled(t) ==
    /\ pc[t] = "en_check"
    /\ err' = [err EXCEPT ![t] = -EBUSY]
    /\ \/ /\ module_refs' = module_refs + 1
          /\ Goto(t, "en_firmware")
       \/ /\ Goto(t, "error_unlock")
          /\ UNCHANGED module_refs
    /\ UNCHANGED << lock, enabled, hypervisor_mem, offlined_cpus, call_done,
                    error_code, cpu_online, preempt_cpu, cpu_state, result,
                    resident, cell_maps, cpu_mask, cpu, calls, aux >>

\* err = -EBUSY; if (enabled || !try_module_get(THIS_MODULE)) goto error_unlock;
EnableCheck(t) ==
    /\ pc[t] = "en_check"
    /\ err' = [err EXCEPT ![t] = -EBUSY]
    /\ \/ /\ enabled
          /\ Goto(t, "error_unlock")
          /\ UNCHANGED module_refs
       \/ /\ ~enabled
          /\ \/ /\ module_refs' = module_refs + 1
                /\ Goto(t, "en_firmware")
             \/ /\ Goto(t, "error_unlock")
                /\ UNCHANGED module_refs
    /\ UNCHANGED << lock, enabled, hypervisor_mem, offlined_cpus, call_done,
                    error_code, cpu_online, preempt_cpu, cpu_state, result,
                    resident, cell_maps, cpu_mask, cpu, calls, aux >>

\* request_firmware and the signature check
EnableFirmware(t) ==
    /\ pc[t] = "en_firmware"
    /\ \/ /\ err' = [err EXCEPT ![t] = -ENOENT]
          /\ Goto(t, "error_put_module")
       \/ /\ err' = [err EXCEPT ![t] = -EINVAL]
          /\ Goto(t, "error_release_fw")
       \/ /\ err' = [err EXCEPT ![t] = -EINVAL]
          /\ Goto(t, "en_map")
    /\ UNCHANGED << lock, shared, cpu_mask, cpu, calls, aux >>

\* the layout check and jailhouse_ioremap of the hypervisor region; err is
\* still -EINVAL on both failures
EnableMap(t) ==
    /\ pc[t] = "en_map"
    /\ \/ /\ SomeLayoutOverflows
          /\ Goto(t, "error_release_fw")
          /\ UNCHANGED hypervisor_mem
       \/ /\ SomeLayoutFits
          /\ \/ /\ hypervisor_mem' = FALSE
                /\ Goto(t, "error_release_fw")
             \/ /\ hypervisor_mem' = TRUE
                /\ Goto(t, "en_copy")
    /\ UNCHANGED << lock, enabled, module_refs, offlined_cpus, call_done,
                    error_code, cpu_online, preempt_cpu, cpu_state, result,
                    resident, cell_maps, err, cpu_mask, cpu, calls, aux >>

\* memcpy of the image, header patching, copy_from_user of the configuration,
\* then error_code = 0
EnableCopy(t) ==
    /\ pc[t] = "en_copy"
    /\ \/ /\ err' = [err EXCEPT ![t] = -EFAULT]
          /\ Goto(t, "error_unmap")
          /\ UNCHANGED error_code
       \/ /\ error_code' = 0
          /\ Goto(t, "en_call")
          /\ UNCHANGED err
    /\ UNCHANGED << lock, enabled, hypervisor_mem, module_refs, offlined_cpus,
                    call_done, cpu_online, preempt_cpu, cpu_state, result,
                    resident, cell_maps, cpu_mask, cpu, calls, aux >>

\* preempt_disable(); atomic_set(&call_done, 0); on_each_cpu(enter_hypervisor, header, 0)
EnableOnEachCpu(t) ==
    /\ pc[t] = "en_call"
    /\ OnEachCpu
    /\ Goto(t, "en_poll")
    /\ UNCHANGED << lock, enabled, hypervisor_mem, module_refs, offlined_cpus,
                    error_code, cpu_online, resident, cell_maps, err, cpu_mask,
                    cpu, calls, aux >>

EnablePoll(t) ==
    /\ pc[t] = "en_poll"
    /\ PollDone
    /\ Goto(t, "en_result")
    /\ UNCHANGED << lock, enabled, hypervisor_mem, module_refs, offlined_cpus,
                    call_done, error_code, cpu_online, cpu_state, result,
                    resident, cell_maps, err, cpu_mask, cpu, calls, aux >>

\* EnableResult without the test of error_code
EnableResultIgnoresError(t) ==
    /\ pc[t] = "en_result"
    /\ enabled' = TRUE
    /\ cell_created' = FALSE
    /\ err' = [err EXCEPT ![t] = 0]
    /\ Goto(t, "en_unlock")
    /\ UNCHANGED << lock, hypervisor_mem, module_refs, offlined_cpus, call_done,
                    error_code, cpu_online, preempt_cpu, cpu_state, result,
                    resident, cell_maps, cpu_mask, cpu, calls, cell_mem,
                    downed, check_args, check_result >>

\* if (error_code) { err = error_code; goto error_unmap; } enabled = true;
EnableResult(t) ==
    /\ pc[t] = "en_result"
    /\ IF error_code # 0
       THEN /\ err' = [err EXCEPT ![t] = error_code]
            /\ Goto(t, "error_unmap")
            /\ UNCHANGED << enabled, cell_created >>
       ELSE /\ enabled' = TRUE
            /\ cell_created' = FALSE
            /\ err' = [err EXCEPT ![t] = 0]
            /\ Goto(t, "en_unlock")
    /\ UNCHANGED << lock, hypervisor_mem, module_refs, offlined_cpus, call_done,
                    error_code, cpu_online, preempt_cpu, cpu_state, result,
                    resident, cell_maps, cpu_mask, cpu, calls, cell_mem,
                    downed, check_args, check_result >>

\* mutex_unlock(&lock); return 0;
EnableUnlock(t) ==
    /\ pc[t] = "en_unlock"
    /\ MutexUnlock(t)
    /\ ReturnWith(t, 0)
    /\ UNCHANGED << enabled, hypervisor_mem, module_refs, offlined_cpus,
                    call_done, error_code, cpu_online, preempt_cpu, cpu_state,
                    resident, cell_maps, calls, aux >>

\* error_unmap without the iounmap
EnableErrorUnmapSkipped(t) ==
    /\ pc[t] = "error_unmap"
    /\ Goto(t, "error_release_fw")
    /\ UNCHANGED << lock, shared, err, cpu_mask, cpu, calls, aux >>

\* error_unmap: iounmap(hypervisor_mem);
EnableErrorUnmap(t) ==
    /\ pc[t] = "error_unmap"
    /\ hypervisor_mem' = FALSE
    /\ Goto(t, "error_release_fw")
    /\ UNCHANGED << lock, enabled, module_refs, offlined_cpus, call_done,
                    error_code, cpu_online, preempt_cpu, cpu_state, result,
                    resident, cell_maps, err, cpu_mask, cpu, calls, aux >>

\* error_release_fw: release_firmware(hypervisor);
EnableErrorReleaseFw(t) ==
    /\ pc[t] = "error_release_fw"
    /\ Goto(t, "error_put_module")
    /\ UNCHANGED << lock, shared, err, cpu_mask, cpu, calls, aux >>

\* error_put_module without the module_put
EnableErrorKeepsModule(t) ==
    /\ pc[t] = "error_put_module"
    /\ Goto(t, "error_unlock")
    /\ UNCHANGED << lock, shared, err, cpu_mask, cpu, calls, aux >>

\* error_put_module: module_put(THIS_MODULE);
EnableErrorPutModule(t) ==
    /\ pc[t] = "error_put_module"
    /\ module_refs' = module_refs - 1
    /\ Goto(t, "error_unlock")
    /\ UNCHANGED << lock, enabled, hypervisor_mem, offlined_cpus, call_done,
                    error_code, cpu_online, preempt_cpu, cpu_state, result,
                    resident, cell_maps, err, cpu_mask, cpu, calls, aux >>

\* error_unlock that returns without mutex_unlock
EnableErrorReturnsLocked(t) ==
    /\ pc[t] = "error_unlock"
    /\ Return(t)
    /\ UNCHANGED << lock, shared, calls, aux >>

\* error_unlock: mutex_unlock(&lock); return err;
EnableErrorUnlock(t) ==
    /\ pc[t] = "error_unlock"
    /\ MutexUnlock(t)
    /\ Return(t)
    /\ UNCHANGED << enabled, hypervisor_mem, module_refs, offlined_cpus,
                    call_done, error_code, cpu_online, preempt_cpu, cpu_state,
                    resident, cell_maps, calls, aux >>

\* enter_hypervisor on CPU c: err = entry(smp_processor_id()).  A CPU whose
\* entry returns 0 now runs under the hypervisor.
EnterHypervisorEntry(c) ==
    /\ \E t \in Threads : pc[t] = "en_poll"
    /\ cpu_state[c] = "ipi"
    /\ \E r \in HvResults :
          /\ result' = [result EXCEPT ![c] = r]
          /\ resident' = IF r = 0 THEN resident \cup {c} ELSE resident
    /\ cpu_state' = [cpu_state EXCEPT ![c] = "ret"]
    /\ UNCHANGED << lock, enabled, hypervisor_mem, module_refs, offlined_cpus,
                    call_done, error_code, cpu_online, preempt_cpu, cell_maps,
                    pc, err, cpu_mask, cpu, calls, aux >>

EnterHypervisorDone(c) ==
    /\ \E t \in Threads : pc[t] = "en_poll"
    /\ RecordResult(c)
    /\ UNCHANGED << lock, enabled, hypervisor_mem, module_refs, offlined_cpus,
                    cpu_online, preempt_cpu, result, resident, cell_maps,
                    pc, err, cpu_mask, cpu, calls, aux >>

\* ---- jailhouse_disable

DisableCall(t) ==
    /\ Ioctl(t)
    /\ err' = [err EXCEPT ![t] = 0]
    /\ Goto(t, "dis_lock")
    /\ UNCHANGED << lock, shared, cpu_mask, cpu, cell_created, check_args,
                    check_result >>

DisableLock(t) ==
    /\ pc[t] = "dis_lock"
    /\ \/ /\ MutexLock(t)
          /\ Goto(t, "dis_check")
          /\ UNCHANGED << err, cpu_mask, cpu >>
       \/ /\ MutexInterrupted(t)
          /\ ReturnWith(t, -EINTR)
    /\ UNCHANGED << shared, calls, aux >>

\* if (!enabled) { mutex_unlock(&lock); return -EINVAL; } error_code = 0;
DisableCheck(t) ==
    /\ pc[t] = "dis_check"
    /\ IF ~enabled
       THEN /\ MutexUnlock(t)
            /\ ReturnWith(t, -EINVAL)
            /\ UNCHANGED error_code
       ELSE /\ error_code' = 0
            /\ Goto(t, "dis_call")
            /\ UNCHANGED << lock, result, err, cpu_mask, cpu >>
    /\ UNCHANGED << enabled, hypervisor_mem, module_refs, offlined_cpus,
                    call_done, cpu_online, preempt_cpu, cpu_state, resident,
                    cell_maps, calls, aux >>

\* DisableOnEachCpu that resets call_done and then asks no CPU to run
\* leave_hypervisor
DisableOnEachCpuCallsNoCpu(t) ==
    /\ pc[t] = "dis_call"
    /\ \E c \in cpu_online : preempt_cpu' = c
    /\ call_done' = 0
    /\ Goto(t, "dis_poll")
    /\ UNCHANGED << lock, enabled, hypervisor_mem, module_refs, offlined_cpus,
                    error_code, cpu_online, cpu_state, result, resident,
                    cell_maps, err, cpu_mask, cpu, calls, aux >>

\* preempt_disable(); atomic_set(&call_done, 0); on_each_cpu(leave_hypervisor, NULL, 0)
DisableOnEachCpu(t) ==
    /\ pc[t] = "dis_call"
    /\ OnEachCpu
    /\ Goto(t, "dis_poll")
    /\ UNCHANGED << lock, enabled, hypervisor_mem, module_refs, offlined_cpus,
                    error_code, cpu_online, resident, cell_maps, err, cpu_mask,
                    cpu, calls, aux >>

DisablePoll(t) ==
    /\ pc[t] = "dis_poll"
    /\ PollDone
    /\ Goto(t, "dis_result")
    /\ UNCHANGED << lock, enabled, hypervisor_mem, module_refs, offlined_cpus,
                    call_done, error_code, cpu_online, cpu_state, result,
                    resident, cell_maps, err, cpu_mask, cpu, calls, aux >>

\* DisableResult unmapping before it looks at the error
DisableResultUnmapsOnError(t) ==
    /\ pc[t] = "dis_result"
    /\ err' = [err EXCEPT ![t] = error_code]
    /\ hypervisor_mem' = FALSE
    /\ IF error_code # 0
       THEN Goto(t, "dis_unlock_out")
       ELSE Goto(t, "dis_cpu_up")
    /\ UNCHANGED << lock, enabled, module_refs, offlined_cpus, call_done,
                    error_code, cpu_online, preempt_cpu, cpu_state, result,
                    resident, cell_maps, cpu_mask, cpu, calls, aux >>

\* err = error_code; if (err) goto unlock_out; iounmap(hypervisor_mem);
DisableResult(t) ==
    /\ pc[t] = "dis_result"
    /\ err' = [err EXCEPT ![t] = error_code]
    /\ IF error_code # 0
       THEN /\ Goto(t, "dis_unlock_out")
            /\ UNCHANGED hypervisor_mem
       ELSE /\ hypervisor_mem' = FALSE
            /\ Goto(t, "dis_cpu_up")
    /\ UNCHANGED << lock, enabled, module_refs, offlined_cpus, call_done,
                    error_code, cpu_online, preempt_cpu, cpu_state, result,
                    resident, cell_maps, cpu_mask, cpu, calls, aux >>

\* the bits of offlined_cpus that for_each_cpu_mask has still to visit
CpusToBringUp(t) == { c \in offlined_cpus : c > cpu[t] }

\* for_each_cpu_mask(cpu, offlined_cpus) if (cpu_up(cpu) != 0) printk(...);
\* cpu_up fails on a CPU that is online already, and may fail otherwise
DisableCpuUp(t) ==
    /\ pc[t] = "dis_cpu_up"
    /\ CpusToBringUp(t) # {}
    /\ LET c == Min(CpusToBringUp(t)) IN
          /\ cpu' = [cpu EXCEPT ![t] = c]
          /\ \/ /\ c \notin cpu_online
                /\ cpu_online' = cpu_online \cup {c}
             \/ UNCHANGED cpu_online
    /\ UNCHANGED << lock, enabled, hypervisor_mem, module_refs, offlined_cpus,
                    call_done, error_code, preempt_cpu, cpu_state, result,
                    resident, cell_maps, pc, err, cpu_mask, calls, aux >>

\* DisableFinish that also empties offlined_cpus
DisableFinishClearsOfflinedCpus(t) ==
    /\ pc[t] = "dis_cpu_up"
    /\ CpusToBringUp(t) = {}
    /\ enabled' = FALSE
    /\ offlined_cpus' = {}
    /\ module_refs' = module_refs - 1
    /\ Goto(t, "dis_unlock_out")
    /\ UNCHANGED << lock, hypervisor_mem, call_done, error_code,
                    cpu_online, preempt_cpu, cpu_state, result, resident,
                    cell_maps, err, cpu_mask, cpu, calls, aux >>

\* after the loop: enabled = false; module_put(THIS_MODULE);
DisableFinish(t) ==
    /\ pc[t] = "dis_cpu_up"
    /\ CpusToBringUp(t) = {}
    /\ enabled' = FALSE
    /\ module_refs' = module_refs - 1
    /\ Goto(t, "dis_unlock_out")
    /\ UNCHANGED << lock, hypervisor_mem, offlined_cpus, call_done, error_code,
                    cpu_online, preempt_cpu, cpu_state, result, resident,
                    cell_maps, err, cpu_mask, cpu, calls, aux >>

\* unlock_out: mutex_unlock(&lock); return err;
DisableUnlock(t) ==
    /\ pc[t] = "dis_unlock_out"
    /\ MutexUnlock(t)
    /\ Return(t)
    /\ UNCHANGED << enabled, hypervisor_mem, module_refs, offlined_cpus,
                    call_done, error_code, cpu_online, preempt_cpu, cpu_state,
                    resident, cell_maps, calls, aux >>

\* leave_hypervisor on CPU c: err = jailhouse_call0(JAILHOUSE_HC_DISABLE).  A
\* CPU whose hypercall returns 0 has left the hypervisor.
LeaveHypervisorCall(c) ==
    /\ \E t \in Threads : pc[t] = "dis_poll"
    /\ cpu_state[c] = "ipi"
    /\ \E r \in HvResults :
          /\ result' = [result EXCEPT ![c] = r]
          /\ resident' = IF r = 0 THEN resident \ {c} ELSE resident
    /\ cpu_state' = [cpu_state EXCEPT ![c] = "ret"]
    /\ UNCHANGED << lock, enabled, hypervisor_mem, module_refs, offlined_cpus,
                    call_done, error_code, cpu_online, preempt_cpu, cell_maps,
                    pc, err, cpu_mask, cpu, calls, aux >>

LeaveHypervisorDone(c) ==
    /\ \E t \in Threads : pc[t] = "dis_poll"
    /\ RecordResult(c)
    /\ UNCHANGED << lock, enabled, hypervisor_mem, module_refs, offlined_cpus,
                    cpu_online, preempt_cpu, result, resident, cell_maps,
                    pc, err, cpu_mask, cpu, calls, aux >>

\* ---- jailhouse_cell_create

\* copy_from_user faults (-EFAULT), num_preload_images != 1 (-EINVAL) or
\* kmalloc fails (-ENOMEM): nothing has been touched
CellCreateReject(t) ==
    /\ Ioctl(t)
    /\ \E e \in { -EFAULT, -EINVAL, -ENOMEM } : ReturnWith(t, e)
    /\ UNCHANGED << lock, shared, cell_created, check_args, check_result >>

\* the cell descriptor is copied in; its cpu mask is any set of CPUs
CellCreateCall(t) ==
    /\ Ioctl(t)
    /\ \E m \in SUBSET Cpus : cpu_mask' = [cpu_mask EXCEPT ![t] = m]
    /\ err' = [err EXCEPT ![t] = 0]
    /\ Goto(t, "cc_cpus")
    /\ UNCHANGED << lock, shared, cpu, cell_created, check_args, check_result >>

\* one iteration of the cpu mask loop for a set bit:
\* if (cpu_online(cpu)) { err = cpu_down(cpu); if (err) goto kfree_config_out;
\*                        cpu_set(cpu, offlined_cpus); }
\* cpu_down refuses the last online CPU, may fail otherwise, and cannot take
\* a CPU down while another CPU runs with preemption disabled.
CellCreateCpu(t) ==
    /\ pc[t] = "cc_cpus"
    /\ cpu_mask[t] # {}
    /\ LET c == Min(cpu_mask[t]) IN
          IF c \in cpu_online
          THEN \/ /\ ReturnWith(t, -EBUSY)
                  /\ UNCHANGED << cpu_online, offlined_cpus, downed >>
               \/ /\ preempt_cpu = NoCpu
                  /\ Cardinality(cpu_online) > 1
                  /\ cpu_online' = cpu_online \ {c}
                  /\ offlined_cpus' = offlined_cpus \cup {c}
                  /\ downed' = [downed EXCEPT ![t] = @ \cup {c}]
                  /\ cpu_mask' = [cpu_mask EXCEPT ![t] = @ \ {c}]
                  /\ UNCHANGED << pc, err, cpu >>
          ELSE /\ cpu_mask' = [cpu_mask EXCEPT ![t] = @ \ {c}]
               /\ UNCHANGED << cpu_online, offlined_cpus, downed, pc, err, cpu >>
    /\ UNCHANGED << lock, enabled, hypervisor_mem, module_refs, call_done,
                    error_code, preempt_cpu, cpu_state, result, resident,
                    cell_maps, calls, cell_mem, cell_created, check_args,
                    check_result >>

\* the memory check (-EINVAL), then jailhouse_ioremap of the cell's RAM
\* (-EBUSY when it fails) and memset
CellCreateMap(t) ==
    /\ pc[t] = "cc_cpus"
    /\ cpu_mask[t] = {}
    /\ \/ /\ SomeCellMemoryInvalid
          /\ ReturnWith(t, -EINVAL)
          /\ UNCHANGED << cell_maps, cell_mem >>
       \/ /\ SomeCellMemoryValid
          /\ \/ /\ ReturnWith(t, -EBUSY)
                /\ UNCHANGED << cell_maps, cell_mem >>
             \/ /\ cell_maps' = cell_maps + 1
                /\ cell_mem' = [cell_mem EXCEPT ![t] = TRUE]
                /\ Goto(t, "cc_copy")
                /\ UNCHANGED << err, cpu_mask, cpu >>
    /\ UNCHANGED << lock, enabled, hypervisor_mem, module_refs, offlined_cpus,
                    call_done, error_code, cpu_online, preempt_cpu, cpu_state,
                    result, resident, calls, downed, cell_created, check_args,
                    check_result >>

\* copy_from_user of the preload image: on a fault err = -EFAULT; goto iounmap_out
CellCreateCopy(t) ==
    /\ pc[t] = "cc_copy"
    /\ \/ /\ err' = [err EXCEPT ![t] = -EFAULT]
          /\ Goto(t, "cc_iounmap_out")
       \/ /\ Goto(t, "cc_lock")
          /\ UNCHANGED err
    /\ UNCHANGED << lock, shared, cpu_mask, cpu, calls, aux >>

\* if (mutex_lock_interruptible(&lock) != 0) { err = -EINTR; goto kfree_config_out; }
CellCreateLock(t) ==
    /\ pc[t] = "cc_lock"
    /\ \/ /\ MutexLock(t)
          /\ Goto(t, "cc_check")
          /\ UNCHANGED << err, cpu_mask, cpu >>
       \/ /\ MutexInterrupted(t)
          /\ ReturnWith(t, -EINTR)
    /\ UNCHANGED << shared, calls, aux >>

\* if (!enabled) { err = -EINVAL; goto unlock_out; }
CellCreateCheck(t) ==
    /\ pc[t] = "cc_check"
    /\ IF ~enabled
       THEN /\ err' = [err EXCEPT ![t] = -EINVAL]
            /\ Goto(t, "cc_unlock_out")
       ELSE /\ Goto(t, "cc_call")
            /\ UNCHANGED err
    /\ UNCHANGED << lock, shared, cpu_mask, cpu, calls, aux >>

\* err = jailhouse_call1(JAILHOUSE_HC_CELL_CREATE, __pa(config));
\* if (err) goto unlock_out;  The hypervisor has created the cell when the
\* hypercall returns 0.
CellCreateHypercall(t) ==
    /\ pc[t] = "cc_call"
    /\ \E r \in HvResults :
          /\ err' = [err EXCEPT ![t] = r]
          /\ cell_created' = (cell_created \/ r = 0)
    /\ Goto(t, "cc_unlock_out")
    /\ UNCHANGED << lock, shared, cpu_mask, cpu, calls, cell_mem, downed,
                    check_args, check_result >>

\* unlock_out: mutex_unlock(&lock);
CellCreateUnlock(t) ==
    /\ pc[t] = "cc_unlock_out"
    /\ MutexUnlock(t)
    /\ Goto(t, "cc_iounmap_out")
    /\ UNCHANGED << enabled, hypervisor_mem, module_refs, offlined_cpus,
                    call_done, error_code, cpu_online, preempt_cpu, cpu_state,
                    resident, cell_maps, err, cpu_mask, cpu, calls, aux >>

\* iounmap_out: iounmap(cell_mem); kfree_config_out: kfree(config); return err;
CellCreateIounmap(t) ==
    /\ pc[t] = "cc_iounmap_out"
    /\ cell_maps' = cell_maps - 1
    /\ cell_mem' = [cell_mem EXCEPT ![t] = FALSE]
    /\ Return(t)
    /\ UNCHANGED << lock, enabled, hypervisor_mem, module_refs, offlined_cpus,
                    call_done, error_code, cpu_online, preempt_cpu, cpu_state,
                    result, resident, calls, downed, cell_created, check_args,
                    check_result >>

\* ---- the driver

Next ==
    \/ \E t \in Threads :
          \/ EnableCopyFault(t)
          \/ EnableCall(t)
          \/ EnableLock(t)
          \/ EnableCheck(t)
          \/ EnableFirmware(t)
          \/ EnableMap(t)
          \/ EnableCopy(t)
          \/ EnableOnEachCpu(t)
          \/ EnablePoll(t)
          \/ EnableResult(t)
          \/ EnableUnlock(t)
          \/ EnableErrorUnmap(t)
          \/ EnableErrorReleaseFw(t)
          \/ EnableErrorPutModule(t)
          \/ EnableErrorUnlock(t)
          \/ DisableCall(t)
          \/ DisableLock(t)
          \/ DisableCheck(t)
          \/ DisableOnEachCpu(t)
          \/ DisablePoll(t)
          \/ DisableResult(t)
          \/ DisableCpuUp(t)
          \/ DisableFinish(t)
          \/ DisableUnlock(t)
          \/ CellCreateReject(t)
          \/ CellCreateCall(t)
          \/ CellCreateCpu(t)
          \/ CellCreateMap(t)
          \/ CellCreateCopy(t)
          \/ CellCreateLock(t)
          \/ CellCreateCheck(t)
          \/ CellCreateHypercall(t)
          \/ CellCreateUnlock(t)
          \/ CellCreateIounmap(t)
    \/ \E c \in Cpus :
          \/ EnterHypervisorEntry(c)
          \/ EnterHypervisorDone(c)
          \/ LeaveHypervisorCall(c)
          \/ LeaveHypervisorDone(c)

Spec == Init /\ [][Next]_vars

\* ---- scheduling: a CPU that has the function of a cross-CPU call queued
\* takes the interrupt and runs it, and the thread that made the call keeps
\* running, first in its polling loop with preemption disabled and then up
\* to its return

CpuRuns(c) ==
    \/ EnterHypervisorEntry(c)
    \/ EnterHypervisorDone(c)
    \/ LeaveHypervisorCall(c)
    \/ LeaveHypervisorDone(c)

CallerRuns(t) ==
    \/ EnablePoll(t)
    \/ EnableResult(t)
    \/ EnableUnlock(t)
    \/ EnableErrorUnmap(t)
    \/ EnableErrorReleaseFw(t)
    \/ EnableErrorPutModule(t)
    \/ EnableErrorUnlock(t)
    \/ DisablePoll(t)
    \/ DisableResult(t)
    \/ DisableCpuUp(t)
    \/ DisableFinish(t)
    \/ DisableUnlock(t)

\* the first ioctl, issued by thread 1, has returned: it was an enable that
\* either failed at its first copy_from_user or went through on every CPU
FirstIoctlReturned ==
    /\ lock = NoThread
    /\ offlined_cpus = {}
    /\ error_code = 0
    /\ cpu_online = Cpus
    /\ preempt_cpu = NoCpu
    /\ cpu_state = [c \in Cpus |-> "idle"]
    /\ result = [c \in Cpus |-> NoResult]
    /\ cell_maps = 0
    /\ pc = [t \in Threads |-> IF t = 1 THEN "returned" ELSE "idle"]
    /\ cpu_mask = [t \in Threads |-> {}]
    /\ cpu = [t \in Threads |-> NoCpu]
    /\ calls = 1
    /\ cell_mem = [t \in Threads |-> FALSE]
    /\ downed = [t \in Threads |-> {}]
    /\ cell_created = FALSE
    /\ check_args = << >>
    /\ check_result = "none"
    /\ \/ /\ err = [t \in Threads |-> IF t = 1 THEN -EFAULT ELSE 0]
          /\ enabled = FALSE /\ hypervisor_mem = FALSE /\ module_refs = 0
          /\ call_done = 0 /\ resident = {}
       \/ /\ err = [t \in Threads |-> 0]
          /\ enabled = TRUE /\ hypervisor_mem = TRUE /\ module_refs = 1
          /\ call_done = NumCpus /\ resident = Cpus

\* the driver from there on, under the scheduling above
FairSpec ==
    /\ FirstIoctlReturned
    /\ [][Next]_vars
    /\ \A c \in Cpus : WF_vars(CpuRuns(c))
    /\ \A t \in Threads : WF_vars(CallerRuns(t))

\* ---- the two size checks taken on their own: the sizes are fixed at the
\* start and the one step applies the check to them

driver == << lock, shared, pc, err, cpu_mask, cpu, calls, cell_mem, downed,
             cell_created >>

LayoutInit ==
    /\ InitDriver
    /\ check_args \in LayoutArgs
    /\ check_result = "none"

LayoutCheck ==
    /\ check_result = "none"
    /\ check_result' = IF LayoutOverflows(check_args) THEN "overflow" ELSE "fits"
    /\ UNCHANGED << driver, check_args >>

LayoutSpec == LayoutInit /\ [][LayoutCheck]_vars

CellMemInit ==
    /\ InitDriver
    /\ check_args \in CellArgs
    /\ check_result = "none"

CellMemCheck ==
    /\ check_result = "none"
    /\ check_result' = IF CellMemoryInvalid(check_args) THEN "invalid" ELSE "valid"
    /\ UNCHANGED << driver, check_args >>

CellMemSpec == CellMemInit /\ [][CellMemCheck]_vars

\* ---- properties

EnableHoldsLock == { "en_check", "en_firmware", "en_map", "en_copy", "en_call",
                     "en_poll", "en_result", "en_unlock", "error_unmap",
                     "error_release_fw", "error_put_module", "error_unlock" }
DisableHoldsLock == { "dis_check", "dis_call", "dis_poll", "dis_result",
                      "dis_cpu_up", "dis_unlock_out" }
CellCreateHoldsLock == { "cc_check", "cc_call", "cc_unlock_out" }

\* the statements of each ioctl that follow its first change of shared state
EnableChanging == EnableHoldsLock \ { "en_check", "error_unlock" }
DisableChanging == DisableHoldsLock \ { "dis_check" }
CellCreateChanging == { "cc_copy", "cc_lock", "cc_check", "cc_call",
                        "cc_unlock_out", "cc_iounmap_out" }

\* thread t takes the step
Steps(t) == << pc[t], err[t], cpu_mask[t], cpu[t] >>' # << pc[t], err[t], cpu_mask[t], cpu[t] >>

\* the CPUs that have run the function of the current cross-CPU call
RanCpus == { c \in Cpus : result[c] # NoResult }
FailedCpus == { c \in Cpus : result[c] \notin {0, NoResult} }
\* the caller has left the polling loop and not yet released the mutex
BarrierOver == \E t \in Threads : pc[t] \in { "en_result", "dis_result" }
BarrierRunning == \E t \in Threads : pc[t] \in { "en_poll", "dis_poll" }

\* C1: whenever no enable or disable is in progress, either no CPU is under
\* the hypervisor (disabled, hypervisor memory unmapped) or every CPU of the
\* system is (enabled).
C1_AllOrNoCpuResident ==
    (\A t \in Threads : pc[t] \notin EnableHoldsLock \cup DisableHoldsLock)
        => \/ resident = {} /\ ~enabled /\ ~hypervisor_mem
           \/ resident = Cpus /\ enabled

\* C2: at most one ioctl at a time is between its first state-changing step
\* and its return.
C2_StrictlySerialized ==
    Cardinality({ t \in Threads :
        pc[t] \in EnableChanging \cup DisableChanging \cup CellCreateChanging }) <= 1

\* C3: every step that changes offlined_cpus, or takes a CPU offline or
\* online, is taken by the thread that holds the mutex.
C3_OfflinedCpusUnderLock ==
    [][ (offlined_cpus' # offlined_cpus \/ cpu_online' # cpu_online)
            => \E t \in Threads : lock = t /\ Steps(t) ]_vars

\* every CPU asked to run the cross-CPU function has run it and returned 0
BarrierSucceeded ==
    /\ \A c \in Cpus : cpu_state[c] = "idle" /\ result[c] \in {0, NoResult}
    /\ RanCpus # {}
    /\ call_done = Cardinality(RanCpus)

\* C4: enabled changes from false to true only in an enable whose cross-CPU
\* call returned 0 on every CPU, and from true to false only in a disable
\* whose cross-CPU call returned 0 on every CPU; the thread making the change
\* holds the mutex, as does every thread that is between the start of a
\* cross-CPU call and its commit and every thread that tests enabled.
C4_LegalTransitions ==
    /\ [](\A t \in Threads :
            pc[t] \in EnableHoldsLock \cup DisableHoldsLock \cup CellCreateHoldsLock
                => lock = t)
    /\ [][ enabled' # enabled =>
             \E t \in Threads :
                /\ lock = t /\ lock' = t /\ Steps(t)
                /\ BarrierSucceeded
                /\ \/ ~enabled /\ pc[t] = "en_result" /\ cpu_online \subseteq RanCpus
                   \/ enabled /\ pc[t] = "dis_cpu_up" ]_vars

\* C4 witness: a disable has just switched enabled off (an enable had
\* switched it on before)
C4_Witness ==
    \E t \in Threads : pc[t] = "dis_unlock_out" /\ err[t] = 0 /\ ~enabled

\* C5 as stated: after the cross-CPU call error_code is 0 iff every CPU
\* returned 0, and otherwise is the result of the lowest-numbered CPU that
\* returned an error.
C5_FirstFailureInCpuOrder ==
    BarrierOver =>
        error_code = IF FailedCpus = {} THEN 0 ELSE result[Min(FailedCpus)]

\* C5 amended: after the cross-CPU call error_code is 0 iff every CPU
\* returned 0; otherwise it is the error of one of the failing CPUs (the last
\* to store it), hence of the lowest-numbered failing CPU when all failing
\* CPUs returned the same code.
C5_AggregateIsSomeFailure ==
    BarrierOver =>
        /\ error_code = 0 <=> FailedCpus = {}
        /\ error_code # 0 => \E c \in FailedCpus : error_code = result[c]
        /\ (\A c, d \in FailedCpus : result[c] = result[d]) /\ FailedCpus # {}
              => error_code = result[Min(FailedCpus)]

\* C5 witness: two CPUs failed with different codes and error_code is not
\* the one of the lowest-numbered
C5_Witness ==
    /\ BarrierOver
    /\ Cardinality(FailedCpus) >= 2
    /\ error_code # result[Min(FailedCpus)]

\* C6: once the caller has left the polling loop, no CPU has the function
\* still queued or running, every online CPU has run it, and call_done
\* counts exactly the CPUs that have.
C6_CompletionAfterAllCpus ==
    BarrierOver =>
        /\ \A c \in Cpus : cpu_state[c] = "idle"
        /\ cpu_online \subseteq RanCpus
        /\ call_done = Cardinality(RanCpus)

\* C6 witness: the caller has left the loop of a cross-CPU call that ran on
\* every CPU of the system
C6_Witness == BarrierOver /\ RanCpus = Cpus

\* C7 as stated: while a cross-CPU call is running, a CPU that has returned
\* from the function (and resumed what it was doing) implies that no CPU has
\* the function still waiting to be invoked.
C7_NoCpuResumesEarly ==
    BarrierRunning =>
        \A c \in RanCpus : cpu_state[c] = "idle"
            => \A d \in Cpus : cpu_state[d] # "ipi"

\* C7 amended: only the calling thread is held back: as long as some CPU has
\* not yet invoked the function, the caller is in its polling loop, holding
\* the mutex with preemption disabled.
C7_CallerWaitsForAllCpus ==
    (\E d \in Cpus : cpu_state[d] = "ipi")
        => /\ preempt_cpu # NoCpu
           /\ \E t \in Threads : lock = t /\ pc[t] \in { "en_poll", "dis_poll" }

\* C7 witness: the caller is still polling, another CPU has returned from the
\* function and resumed, a third has not invoked it yet
C7_Witness ==
    /\ BarrierRunning
    /\ \E c \in RanCpus \ {preempt_cpu} : cpu_state[c] = "idle"
    /\ \E d \in Cpus : cpu_state[d] = "ipi"

\* the statements of a disable that has seen error_code # 0
DisableFailing(t) ==
    \/ pc[t] = "dis_result" /\ error_code # 0
    \/ pc[t] = "dis_unlock_out" /\ err[t] # 0

\* C8: a disable whose cross-CPU call failed returns error_code, leaves the
\* hypervisor memory mapped, the module reference held and enabled true, and
\* none of its steps changes the online CPUs or offlined_cpus.
C8_FailedDisableKeepsEnabled ==
    /\ [](\A t \in Threads :
            pc[t] = "dis_unlock_out" /\ err[t] # 0
                => /\ err[t] = error_code
                   /\ enabled /\ hypervisor_mem /\ module_refs = 1)
    /\ [][ \A t \in Threads :
             DisableFailing(t) /\ Steps(t)
                => /\ UNCHANGED << enabled, hypervisor_mem, module_refs,
                                   cpu_online, offlined_cpus >>
                   /\ pc[t] = "dis_result" => err'[t] = error_code ]_vars

\* C8 witness: a failed disable is about to return and no CPU is under the
\* hypervisor any more although no CPU was ever taken offline: as each failed
\* disable leaves a CPU behind, this is at least the second failed disable
C8_Witness ==
    \E t \in Threads :
        /\ pc[t] = "dis_unlock_out" /\ err[t] # 0
        /\ offlined_cpus = {} /\ resident = {}

\* C9: an enable that fails after taking the module reference reaches
\* error_unlock with enabled false, the hypervisor memory unmapped and the
\* module reference dropped, and no step of an enable changes offlined_cpus.
C9_FailedEnableLeavesDisabled ==
    /\ [](\A t \in Threads :
            pc[t] = "error_unlock" /\ err[t] # -EBUSY
                => ~enabled /\ ~hypervisor_mem /\ module_refs = 0)
    /\ [][ \A t \in Threads :
             pc[t] \in EnableHoldsLock \cup {"en_lock"} /\ Steps(t)
                => UNCHANGED offlined_cpus ]_vars

\* C9 witness: an enable whose cross-CPU call failed on some CPU and
\* succeeded on another is at error_unlock, returning the error
C9_Witness ==
    \E t \in Threads :
        /\ pc[t] = "error_unlock" /\ err[t] = error_code
        /\ FailedCpus # {} /\ FailedCpus # RanCpus

\* C10: the step of a successful disable that ends the bring-up loop leaves
\* offlined_cpus empty.
C10_DisableClearsOfflinedCpus ==
    [][ \A t \in Threads :
          pc[t] = "dis_cpu_up" /\ pc'[t] = "dis_unlock_out"
             => offlined_cpus' = {} ]_vars

\* a disable is about to return 0
DisableSucceeded(t) == pc[t] = "dis_unlock_out" /\ err[t] = 0

C12_FailedCellCreateKeepsOfflinedCpus ==
    \A t \in Threads :
        pc[t] = "returned" /\ err[t] # 0 => downed[t] = {}

\* what a cross-CPU call or a hypercall changes
BarrierState == << call_done, cpu_state, preempt_cpu, error_code, resident,
                  cell_created >>

C14_InterruptedLockWaitChangesNothing ==
    \A t \in Threads :
        pc[t] = "returned" /\ err[t] = -EINTR
            => downed[t] = {} /\ ~cell_mem[t]

\* C15: a thread holds the mutex exactly while it is between the
\* mutex_lock_interruptible and the mutex_unlock of an ioctl; a thread that
\* has returned does not hold it, and it is free when no ioctl is running.
C15_LockReleasedOnExit ==
    /\ lock \in Threads \cup {NoThread}
    /\ \A t \in Threads :
          lock = t <=> pc[t] \in EnableHoldsLock \cup DisableHoldsLock
                                    \cup CellCreateHoldsLock
    /\ (\A t \in Threads : InUserSpace(t)) => lock = NoThread

\* C15 witness: both threads have returned an error that is raised only
\* between mutex_lock_interruptible and mutex_unlock, and the mutex is free
C15_Witness ==
    /\ lock = NoThread
    /\ enabled
    /\ \A t \in Threads : pc[t] = "returned" /\ err[t] \in HvErrors

\* C16: the layout check of enable answers "overflow" exactly when
\* hv_core_size + percpu_size + config_size, added as numbers, is at least
\* hv_mem->size.
C16_LayoutOverflowRejected ==
    check_result # "none" =>
        (check_result = "overflow"
            <=> HvCoreSize(check_args) + PercpuSize(check_args)
                    + ConfigSize(check_args) >= check_args[1])

\* C17: the memory check of cell-create answers "invalid" exactly when the
\* cell has no memory region, its RAM is smaller than 1 MiB, or
\* target_address + size, added as numbers, is beyond the RAM.
C17_InvalidCellMemoryRejected ==
    check_result # "none" =>
        (check_result = "invalid"
            <=> \/ check_args[1] < 1
                \/ check_args[2] < MiB
                \/ check_args[3] + check_args[4] > check_args[2])

\* C18: under FairSpec, whenever a thread is in the polling loop of an
\* enable or a disable, eventually the mutex is free and no thread is inside
\* the locked part of an enable or a disable: the polling thread has left
\* the loop, released the mutex and returned, whatever cell-creates run
\* beside it.
C18_BarrierTerminates ==
    BarrierRunning
        ~> /\ lock = NoThread
           /\ \A t \in Threads : pc[t] \notin EnableHoldsLock \cup DisableHoldsLock

\* C18 witness: a disable has left its polling loop while a cell-create
\* that has taken a CPU offline is still running
C18_Witness ==
    \E t, u \in Threads :
        /\ pc[t] = "dis_result"
        /\ downed[u] # {} /\ pc[u] # "returned"
        /\ Cardinality(cpu_online) < NumCpus

\* C19: a cell-create that has returned has no mapping of the cell's RAM
\* left, the mapping is still there while the call holds the mutex, and the
\* live cell mappings are those of the calls in progress.
C19_CellMappingUnmappedByReturn ==
    /\ \A t \in Threads :
          /\ pc[t] = "returned" => ~cell_mem[t]
          /\ pc[t] \in CellCreateHoldsLock => cell_mem[t]
    /\ cell_maps = Cardinality({ t \in Threads : cell_mem[t] })

\* C20: whenever the mutex is free, enabled, the hypervisor memory being
\* mapped and the module reference being held (once) are the same thing; the
\* mapping goes away only in the iounmap of a disable whose cross-CPU call
\* succeeded or of the enable that made it and then failed, and iounmap is
\* run on a live mapping only.
C20_EnabledMappedGuarded ==
    /\ [](/\ module_refs \in {0, 1}
          /\ lock = NoThread
                => /\ enabled <=> hypervisor_mem
                   /\ enabled <=> module_refs = 1)
    /\ [][ /\ hypervisor_mem /\ ~hypervisor_mem'
                 => \E t \in Threads :
                       /\ lock = t /\ Steps(t)
                       /\ \/ enabled /\ pc[t] = "dis_result" /\ error_code = 0
                          \/ ~enabled /\ pc[t] = "error_unmap"
           /\ \A t \in Threads :
                 /\ Steps(t)
                 /\ \/ pc[t] = "error_unmap"
                    \/ pc[t] = "dis_result" /\ error_code = 0
                 => hypervisor_mem /\ ~hypervisor_mem' ]_vars

\* C20 witness: the mutex is free after a cell was created, with the
\* hypervisor enabled, its memory mapped and the one module reference held
C20_Witness ==
    /\ lock = NoThread
    /\ enabled /\ hypervisor_mem /\ module_refs = 1
    /\ cell_created

====
